---- MODULE Spec2Model ----
(***************************************************************************)
(* Model of the blockchain_tracker pipeline: wallet discovery              *)
(* (fetch_wallets), transaction ingestion (fetch_wallet_transactions) and  *)
(* notification delivery (export_wallet_transactions / export_transaction) *)
(* over one storage, one in-memory channel and three rate limiters.        *)
(*                                                                         *)
(* Time is counted in seconds.  Every timer is kept relative (time left,   *)
(* or time elapsed, saturating at the period it is compared with), so the  *)
(* state space is finite although the loops never end.                     *)
(***************************************************************************)
EXTENDS Integers, Sequences, FiniteSets, TLC

\* ------------------------------------------------------------------ bounds
MaxRestarts == 1        \* cancellations / crashes followed by a restart
MaxThrottles == 2       \* throttle answers the sink gives to one message
MaxRetryAfter == 3      \* largest retry_after a throttle answer carries

\* ------------------------------------------------------- program constants
MAX_RATE == 1               \* AsyncLimiter(1, ...): one token per period
EXPORT_PERIOD == 1          \* EXPORT_LIMITER = AsyncLimiter(1, 1)
TRANSACTIONS_PERIOD == 60   \* timedelta(minutes=1)
WALLETS_PERIOD == 600       \* timedelta(minutes=10)

None == -1                  \* Python's None for optional numbers
NoHash == "none"            \* no current transaction hash
NoError == "none"           \* run() has not ended with an error

\* ------------------------------------------------------------------ state
VARIABLES
    \* process
    status,             \* "running" | "down"
    restarts,           \* times the process has stopped so far
    error,              \* the stage whose error ended run(), NoError otherwise
    \* storage (committed rows; survive a restart)
    wallets,            \* set of [address, host, age]; age = now - updated_at
    tokens,             \* set of Token rows
    transactions,       \* set of Transaction rows
    amounts,            \* set of TransactionAmount rows
    chat_messages,      \* set of ChatMessage rows
    \* shared in-memory objects
    event,              \* the readiness Event
    channel,            \* the memory object stream sender -> receiver
    level,              \* limiter -> seconds until its bucket is empty
    \* fetch_wallets
    sleepD,             \* seconds left of the sleep that ends a pass
    visited,            \* hosts the `for host` loop has gone through in this run
    \* fetch_wallet_transactions
    pcI, walletsTodo, pending, transaction_hashes,
    \* export_wallet_transactions
    pcN, transaction_hash, message_id, sleepN, throttles,
    \* environment
    visible,            \* hashes the chain explorers already return
    login_ok,           \* host -> whether its login call answers with a token
    listing_ok,         \* host -> whether its listing call answers well-formed
    nextMessageId,      \* next message id the sink hands out
    repeated_output,    \* whether h3 pays its recipient in two outputs
    \* history (read by the properties only)
    forwardCount,       \* hash -> times pushed onto the channel (max 2)
    sentCount,          \* hash -> times the sink accepted it (max 2)
    backfilled,         \* hashes committed by a batch whose marker was absent
    eligible,           \* hashes committed by a batch whose marker was present
    observed,           \* hashes some committed batch has fetched
    batch,              \* the running batch: [wallet, marker, fetched, late]
    swept,              \* wallets that completed a batch
    fetchedBy,          \* wallet -> hashes its fetches returned so far
    lateDone,           \* hashes first fetched for a wallet after its first batch,
                        \* whose batch has finished pushing
    attempt,            \* the throttled delivery attempt being waited out:
                        \* [hash, retry_after, elapsed]
    sinceAcquire,       \* limiter -> seconds since its last acquisition
    acquireGap,         \* limiter -> sinceAcquire as it was at the last acquisition
    sinceAuth,          \* host -> seconds since the last login call
    authGap,            \* host -> sinceAuth as it was at the last login call
    \* fetch_ethereum_wallet_transactions (a function no stage calls)
    ethPc,              \* "idle" | "list" | "loop" | "tokentx" | "abi" |
                        \* "returned" | "raised"
    ethResult,          \* what is left of data['result'] for the `for tx` loop
    eth_transactions,   \* the hashes appended to `transactions`
    ETHEREUM_TOKENS,    \* contract addresses with a cached Token
    ETHEREUM_CONTRACTS, \* contract addresses with a cached contract
    ethCancelled,       \* the caller's cancel scope has been cancelled
    ethSwallowed,       \* cancellations caught inside the loop so far
    \* the classification of one wallet address
    candidate,          \* the address, a sequence of characters
    chainTag            \* the branch the sweep takes for it, NoTag before

procVars == <<status, restarts, error>>
storeVars == <<wallets, tokens, transactions, amounts, chat_messages>>
sharedVars == <<event, channel, level>>
discVars == <<sleepD, visited>>
ingestVars == <<pcI, walletsTodo, pending, transaction_hashes>>
notifyVars == <<pcN, transaction_hash, message_id, sleepN, throttles>>
envVars == <<visible, login_ok, listing_ok, nextMessageId, repeated_output>>
ingestHist == <<backfilled, eligible, observed, batch, swept, fetchedBy, lateDone>>
authHist == <<sinceAuth, authGap>>
limitHist == <<sinceAcquire, acquireGap>>
histVars == <<forwardCount, sentCount, ingestHist, attempt, limitHist, authHist>>
ethVars == <<ethPc, ethResult, eth_transactions, ETHEREUM_TOKENS, ETHEREUM_CONTRACTS,
             ethCancelled, ethSwallowed>>
pipelineVars == <<procVars, storeVars, sharedVars, discVars, ingestVars, notifyVars,
                  envVars, histVars>>
matchVars == <<candidate, chainTag>>
vars == <<pipelineVars, ethVars, matchVars>>

\* ------------------------------------------------------------ environment
\* The three provider hosts, in the order of the WalletHost enum.
WalletHost == <<"benefort.org", "fianit.net", "whitetrade.net">>
Hosts == {WalletHost[i] : i \in 1..Len(WalletHost)}

W1 == "btc_wallet_1"
W2 == "btc_wallet_2"
Addresses == {W1, W2}

\* Addresses that are no wallet of the providers: a Bitcoin address, an
\* address longer than BTC_REGEXP allows (a 62-character bc1 address), and a
\* listed string that is no address at all.
Ext == "btc_external"
Long == "bc1_62_characters"
Unknown == "not-an-address"

\* What each provider's wallet listing holds; whitetrade lists no wallet.
Listing(host) ==
    CASE host = "benefort.org" -> {W1, Unknown}
      [] host = "fianit.net" -> {W2}
      [] OTHER -> {}

\* Whether each provider's login call answers with a token: every provider
\* accepts the configured credentials, or fianit.net rejects them, or every
\* provider does.
LoginOutcomes ==
    {[host \in Hosts |-> TRUE], [host \in Hosts |-> host # "fianit.net"],
     [host \in Hosts |-> FALSE]}

\* Whether each provider's listing call answers with a well-formed listing:
\* every provider's does, or fianit.net's does not.
ListingOutcomes ==
    {[host \in Hosts |-> TRUE], [host \in Hosts |-> host # "fianit.net"]}

\* A grammar that admits any listed string.
IsBTCLoose(address) == address \in {W1, W2, Ext, Unknown}

\* Transaction.BTC_REGEXP / TRON_REGEXP applied to the modelled addresses.
IsBTC(address) == address \in {W1, W2, Ext}
IsTRON(address) == FALSE

Hashes == {"h1", "h2", "h3"}

\* The raw transactions of the chain.  h2 moves coins from W1 to W2 (with
\* change back to W1), so both wallets' histories hold it.  h1 comes from an
\* address BTC_REGEXP does not match.  h3 pays W1 in one output or, in the
\* runs that start with repeated_output, in two.
RawTx(h) ==
    CASE h = "h1" -> [hash |-> "h1", time |-> 1, from |-> Long,
                      out |-> <<[addr |-> W1, value |-> 5]>>]
      [] h = "h2" -> [hash |-> "h2", time |-> 2, from |-> W1,
                      out |-> <<[addr |-> W2, value |-> 3],
                                [addr |-> W1, value |-> 2]>>]
      [] OTHER    -> [hash |-> "h3", time |-> 3, from |-> Ext,
                      out |-> IF repeated_output
                              THEN <<[addr |-> W1, value |-> 7],
                                     [addr |-> W1, value |-> 1]>>
                              ELSE <<[addr |-> W1, value |-> 7]>>]

Involves(h, address) ==
    \/ RawTx(h).from = address
    \/ \E i \in 1..Len(RawTx(h).out) : RawTx(h).out[i].addr = address

BITCOIN == [address |-> "bitcoin", symbol |-> "BTC", decimals |-> 8]

Limiters == {"EXPORT_LIMITER", "TRANSACTIONS_LIMITER", "WALLETS_LIMITER"}

Period(limiter) ==
    CASE limiter = "EXPORT_LIMITER" -> EXPORT_PERIOD
      [] limiter = "TRANSACTIONS_LIMITER" -> TRANSACTIONS_PERIOD
      [] OTHER -> WALLETS_PERIOD

Min(a, b) == IF a < b THEN a ELSE b
Max(a, b) == IF a < b THEN b ELSE a
Bump(n) == Min(n + 1, 2)
Only(S) == CHOOSE x \in S : TRUE   \* the element of a one-element set

\* ---------------------------------------------------------------- storage
EmptySession == [tokens |-> {}, transactions |-> {}, amounts |-> {}]

\* select(max(Transaction.timestamp)).filter_by(wallet_address=...): None when
\* the wallet has no persisted transaction.  The session has nothing pending
\* when it runs (the previous batch was committed).
LastTransactionAt(address) ==
    LET times == {r.timestamp : r \in {x \in transactions : x.wallet_address = address}}
    IN  IF times = {} THEN None
        ELSE CHOOSE t \in times : \A u \in times : u <= t

\* fetch_bitcoin_wallet_transactions: the explorer's transactions of the
\* address, newest first, reversed to oldest first and normalised.
NewestFirst(hs) ==
    [i \in 1..Cardinality(hs) |->
        CHOOSE h \in hs :
            Cardinality({g \in hs : RawTx(g).time > RawTx(h).time}) = i - 1]

Reversed(seq) == [i \in 1..Len(seq) |-> seq[Len(seq) + 1 - i]]

Normalise(h, wallet_address) ==
    [hash |-> h,
     wallet_address |-> wallet_address,
     from_address |-> RawTx(h).from,
     timestamp |-> RawTx(h).time,
     token |-> BITCOIN,
     amounts |-> [i \in 1..Len(RawTx(h).out) |->
                    [transaction_hash |-> h,
                     to_address |-> RawTx(h).out[i].addr,
                     amount |-> RawTx(h).out[i].value]]]

fetch_bitcoin_wallet_transactions(wallet_address) ==
    Only({[i \in 1..Len(hs) |-> Only({Normalise(h, wallet_address) : h \in {hs[i]}})]
              \o <<>> :
          hs \in {Reversed(NewestFirst({h \in visible : Involves(h, wallet_address)}))
                      \o <<>>}})

TransactionRow(tx) ==
    [hash |-> tx.hash, wallet_address |-> tx.wallet_address,
     from_address |-> tx.from_address, token_address |-> tx.token.address,
     timestamp |-> tx.timestamp]

AmountKey(a) == <<a.transaction_hash, a.to_address>>

\* One `with suppress(IntegrityError): async with begin_nested(): ...` block:
\* merge the token, add the transaction and its amounts, flush.  A primary-key
\* conflict (Transaction.hash, or TransactionAmount's (transaction_hash,
\* to_address)) rolls the savepoint back and leaves the session as it was.
NestedInsertNoHashKey(p, tx) ==
    [ok |-> TRUE,
     pending |-> [tokens |-> p.tokens \cup ({tx.token} \ tokens),
                  transactions |-> p.transactions \cup {TransactionRow(tx)},
                  amounts |-> p.amounts \cup {tx.amounts[i] : i \in 1..Len(tx.amounts)}]]

\* An insert that adds the Transaction and its Token without the amounts.
NestedInsertNoAmounts(p, tx) ==
    IF \E r \in transactions \cup p.transactions : r.hash = tx.hash
    THEN [ok |-> FALSE, pending |-> p]
    ELSE [ok |-> TRUE,
          pending |-> [tokens |-> p.tokens \cup ({tx.token} \ tokens),
                       transactions |-> p.transactions \cup {TransactionRow(tx)},
                       amounts |-> p.amounts]]

\* A rejected insert that rolls back the whole session, not its savepoint.
NestedInsertAbortBatch(p, tx) ==
    LET rows == {tx.amounts[i] : i \in 1..Len(tx.amounts)}
        hashConflict ==
            \E r \in transactions \cup p.transactions : r.hash = tx.hash
        amountConflict ==
            \/ \E i, j \in 1..Len(tx.amounts) :
                   i < j /\ AmountKey(tx.amounts[i]) = AmountKey(tx.amounts[j])
            \/ \E a \in amounts \cup p.amounts, b \in rows : AmountKey(a) = AmountKey(b)
    IN  IF hashConflict \/ amountConflict
        THEN [ok |-> FALSE, pending |-> EmptySession]
        ELSE [ok |-> TRUE,
              pending |-> [tokens |-> p.tokens \cup ({tx.token} \ tokens),
                           transactions |-> p.transactions \cup {TransactionRow(tx)},
                           amounts |-> p.amounts \cup rows]]

NestedInsert(p, tx) ==
    LET rows == {tx.amounts[i] : i \in 1..Len(tx.amounts)}
        hashConflict ==
            \E r \in transactions \cup p.transactions : r.hash = tx.hash
        amountConflict ==
            \/ \E i, j \in 1..Len(tx.amounts) :
                   i < j /\ AmountKey(tx.amounts[i]) = AmountKey(tx.amounts[j])
            \/ \E a \in amounts \cup p.amounts, b \in rows : AmountKey(a) = AmountKey(b)
    IN  IF hashConflict \/ amountConflict
        THEN [ok |-> FALSE, pending |-> p]
        ELSE [ok |-> TRUE,
              pending |-> [tokens |-> p.tokens \cup ({tx.token} \ tokens),
                           transactions |-> p.transactions \cup {TransactionRow(tx)},
                           amounts |-> p.amounts \cup rows]]

\* The `for transaction in transactions` loop: the hash of an insert that went
\* through is remembered only when the marker read before the loop is present.
RECURSIVE InsertLoopNoMarker(_, _, _, _)
InsertLoopNoMarker(txs, p, hashes, last_transaction_at) ==
    IF txs = <<>> THEN [pending |-> p, hashes |-> hashes]
    ELSE LET r == NestedInsert(p, Head(txs))
         IN  InsertLoopNoMarker(Tail(txs), r.pending,
                        IF r.ok THEN Append(hashes, Head(txs).hash) ELSE hashes,
                        last_transaction_at)

RECURSIVE InsertLoopEveryFetch(_, _, _, _)
InsertLoopEveryFetch(txs, p, hashes, last_transaction_at) ==
    IF txs = <<>> THEN [pending |-> p, hashes |-> hashes]
    ELSE LET r == NestedInsert(p, Head(txs))
         IN  InsertLoopEveryFetch(Tail(txs), r.pending,
                        IF last_transaction_at # None
                        THEN Append(hashes, Head(txs).hash) ELSE hashes,
                        last_transaction_at)

RECURSIVE InsertLoop(_, _, _, _)
InsertLoop(txs, p, hashes, last_transaction_at) ==
    IF txs = <<>> THEN [pending |-> p, hashes |-> hashes]
    ELSE LET r == NestedInsert(p, Head(txs))
         IN  InsertLoop(Tail(txs), r.pending,
                        IF r.ok /\ last_transaction_at # None
                        THEN Append(hashes, Head(txs).hash) ELSE hashes,
                        last_transaction_at)

Perms(S) == {f \in [1..Cardinality(S) -> S] : \A i, j \in 1..Cardinality(S) : f[i] = f[j] => i = j}

\* ------------------------------------------------------------ rate limiter
\* AsyncLimiter(MAX_RATE, period), a leaky bucket: an acquisition needs
\* level + 1 <= max_rate and adds 1 to the level, which leaks at max_rate per
\* period.  level[l] holds the level in seconds of leak time.
HasCapacityBurst(l) == level[l] <= MAX_RATE * Period(l)

HasCapacity(l) == level[l] + Period(l) <= MAX_RATE * Period(l)
Acquired(l) == [level EXCEPT ![l] = level[l] + Period(l)]

\* async with limiter: the acquisition, with its history.
Acquire(l) ==
    /\ HasCapacity(l)
    /\ level' = Acquired(l)
    /\ acquireGap' = [acquireGap EXCEPT ![l] = sinceAcquire[l]]
    /\ sinceAcquire' = [sinceAcquire EXCEPT ![l] = 0]

\* ---------------------------------------------------------------- process
NoBatch == [wallet |-> NoHash, marker |-> None, fetched |-> {}, late |-> {}]
NoAttempt == [hash |-> NoHash, retry_after |-> 0, elapsed |-> 0]

\* The in-memory state run() starts from: new Event, new stream, the three
\* tasks at their first statement, nothing in any session.
Started ==
    /\ event' = FALSE
    /\ channel' = <<>>
    /\ level' = [l \in Limiters |-> 0]
    /\ sleepD' = 0
    /\ pcI' = "wait" /\ walletsTodo' = <<>> /\ pending' = EmptySession
    /\ transaction_hashes' = <<>>
    /\ pcN' = "recv" /\ transaction_hash' = NoHash /\ message_id' = None
    /\ sleepN' = 0 /\ throttles' = 0
    /\ batch' = NoBatch
    /\ attempt' = NoAttempt
    /\ sinceAcquire' = [l \in Limiters |-> None]
    /\ acquireGap' = [l \in Limiters |-> None]

\* A task group in which the error of one stage stops that stage alone.
FailOnlyStage(stage) ==
    /\ error' = stage
    /\ UNCHANGED <<status, restarts, event, channel, level, sleepD, pcI, walletsTodo,
                   pending, transaction_hashes, pcN, transaction_hash, message_id,
                   sleepN, throttles, batch, attempt, sinceAcquire, acquireGap>>

\* A stage ends with an error that is not a cancellation: wrap_exc prints it,
\* removes the session and raises it again, the task group cancels the other
\* two stages and run() ends by raising the error.
Fail(stage) ==
    /\ status' = "down"
    /\ error' = stage
    /\ restarts' = Min(restarts + 1, MaxRestarts)
    /\ Started

\* ----------------------------------------------- fetch_wallet_transactions

\* Ingestion that does not wait for the Event.
IngestWaitNoEvent ==
    /\ status = "running" /\ pcI = "wait"
    /\ pcI' = "acquire"
    /\ UNCHANGED <<procVars, storeVars, sharedVars, discVars, walletsTodo, pending,
                   transaction_hashes, notifyVars, envVars, ethVars, matchVars, histVars>>

\* await event.wait()
IngestWait ==
    /\ status = "running" /\ pcI = "wait" /\ event
    /\ pcI' = "acquire"
    /\ UNCHANGED <<procVars, storeVars, sharedVars, discVars, walletsTodo, pending,
                   transaction_hashes, notifyVars, envVars, ethVars, matchVars, histVars>>

\* async with self.TRANSACTIONS_LIMITER, then select(Wallet): storage returns
\* the wallets in no stated order.
IngestAcquire ==
    /\ status = "running" /\ pcI = "acquire"
    /\ Acquire("TRANSACTIONS_LIMITER")
    /\ \E order \in Perms({w.address : w \in wallets}) : walletsTodo' = order
    /\ pcI' = "wallet"
    /\ UNCHANGED <<procVars, storeVars, event, channel, discVars, pending,
                   transaction_hashes, notifyVars, envVars, ethVars, matchVars, forwardCount, sentCount,
                   ingestHist, attempt, authHist>>

\* One wallet of the sweep up to the commit: classify, fetch, read the marker,
\* run the insert loop.  An address of neither grammar is skipped.
IngestWallet ==
    /\ status = "running" /\ pcI = "wallet" /\ walletsTodo # <<>>
    /\ LET address == Head(walletsTodo) IN
       IF ~(IsBTC(address) \/ IsTRON(address))
       THEN /\ walletsTodo' = Tail(walletsTodo)
            /\ UNCHANGED <<pcI, pending, transaction_hashes, batch>>
       ELSE \E txs \in {fetch_bitcoin_wallet_transactions(address)},
               last_transaction_at \in {LastTransactionAt(address)} :
            \E r \in {InsertLoop(txs, EmptySession, <<>>, last_transaction_at)} :
            LET fetched == {txs[i].hash : i \in 1..Len(txs)}
            IN  /\ pending' = r.pending
                /\ transaction_hashes' = r.hashes
                /\ batch' = [wallet |-> address, marker |-> last_transaction_at,
                             fetched |-> fetched,
                             late |-> IF address \in swept
                                      THEN fetched \ fetchedBy[address] ELSE {}]
                /\ pcI' = "commit"
                /\ UNCHANGED walletsTodo
    /\ UNCHANGED <<procVars, storeVars, sharedVars, discVars, notifyVars, envVars, ethVars, matchVars,
                   forwardCount, sentCount, backfilled, eligible, observed, swept,
                   fetchedBy, lateDone, attempt, limitHist, authHist>>

\* The explorer answers the fetch of one wallet with a non-OK response:
\* fetch_bitcoin_wallet_transactions returns what logger.exception returns,
\* None, the marker is read, and `for transaction in transactions` raises
\* TypeError out of the stage.
IngestFetchFails ==
    /\ status = "running" /\ pcI = "wallet" /\ walletsTodo # <<>>
    /\ IsBTC(Head(walletsTodo)) \/ IsTRON(Head(walletsTodo))
    /\ restarts < MaxRestarts
    /\ Fail("ingestion")
    /\ UNCHANGED <<storeVars, visited, envVars, ethVars, matchVars, forwardCount, sentCount, backfilled,
                   eligible, observed, swept, fetchedBy, lateDone, authHist>>

\* The hashes are sent while the rows of the batch are still in the session.
IngestCommitLate ==
    /\ status = "running" /\ pcI = "commit"
    /\ LET inserted == {r.hash : r \in pending.transactions} IN
       /\ backfilled' = IF batch.marker = None THEN backfilled \cup inserted ELSE backfilled
       /\ eligible' = IF batch.marker # None THEN eligible \cup inserted ELSE eligible
    /\ observed' = observed \cup batch.fetched
    /\ swept' = swept \cup {batch.wallet}
    /\ fetchedBy' = [fetchedBy EXCEPT ![batch.wallet] = @ \cup batch.fetched]
    /\ pcI' = "push"
    /\ UNCHANGED <<procVars, storeVars, sharedVars, discVars, walletsTodo, pending,
                   transaction_hashes, notifyVars, envVars, ethVars, matchVars, forwardCount, sentCount,
                   batch, lateDone, attempt, limitHist, authHist>>

\* await self._Session.commit()
IngestCommit ==
    /\ status = "running" /\ pcI = "commit"
    /\ tokens' = tokens \cup pending.tokens
    /\ transactions' = transactions \cup pending.transactions
    /\ amounts' = amounts \cup pending.amounts
    /\ pending' = EmptySession
    /\ LET inserted == {r.hash : r \in pending.transactions} IN
       /\ backfilled' = IF batch.marker = None THEN backfilled \cup inserted ELSE backfilled
       /\ eligible' = IF batch.marker # None THEN eligible \cup inserted ELSE eligible
    /\ observed' = observed \cup batch.fetched
    /\ swept' = swept \cup {batch.wallet}
    /\ fetchedBy' = [fetchedBy EXCEPT ![batch.wallet] = @ \cup batch.fetched]
    /\ pcI' = "push"
    /\ UNCHANGED <<procVars, wallets, chat_messages, sharedVars, discVars, walletsTodo,
                   transaction_hashes, notifyVars, envVars, ethVars, matchVars, forwardCount, sentCount,
                   batch, lateDone, attempt, limitHist, authHist>>

\* A stream without room: a send waits until the item before it was received.
IngestPushRendezvous ==
    /\ status = "running" /\ pcI = "push"
    /\ transaction_hashes # <<>> => channel = <<>>
    /\ IF transaction_hashes # <<>>
       THEN /\ channel' = Append(channel, Head(transaction_hashes))
            /\ transaction_hashes' = Tail(transaction_hashes)
            /\ forwardCount' = [forwardCount EXCEPT ![Head(transaction_hashes)] = Bump(@)]
            /\ UNCHANGED <<pcI, walletsTodo, batch, lateDone>>
       ELSE /\ walletsTodo' = Tail(walletsTodo)
            /\ pcI' = "wallet"
            /\ lateDone' = lateDone \cup batch.late
            /\ batch' = NoBatch
            /\ UNCHANGED <<channel, transaction_hashes, forwardCount>>
    /\ UNCHANGED <<procVars, storeVars, event, level, discVars, pending, notifyVars,
                   envVars, ethVars, matchVars, sentCount, backfilled, eligible, observed, swept, fetchedBy,
                   attempt, limitHist, authHist>>

\* for transaction_hash in transaction_hashes: await sender.send(...).  The
\* stream's buffer is unbounded, so a send never waits for the receiver.
IngestPush ==
    /\ status = "running" /\ pcI = "push"
    /\ IF transaction_hashes # <<>>
       THEN /\ channel' = Append(channel, Head(transaction_hashes))
            /\ transaction_hashes' = Tail(transaction_hashes)
            /\ forwardCount' = [forwardCount EXCEPT ![Head(transaction_hashes)] = Bump(@)]
            /\ UNCHANGED <<pcI, walletsTodo, batch, lateDone>>
       ELSE /\ walletsTodo' = Tail(walletsTodo)
            /\ pcI' = "wallet"
            /\ lateDone' = lateDone \cup batch.late
            /\ batch' = NoBatch
            /\ UNCHANGED <<channel, transaction_hashes, forwardCount>>
    /\ UNCHANGED <<procVars, storeVars, event, level, discVars, pending, notifyVars,
                   envVars, ethVars, matchVars, sentCount, backfilled, eligible, observed, swept, fetchedBy,
                   attempt, limitHist, authHist>>

\* The wallets are done: await self._Session.remove(), back to the limiter.
IngestEndSweep ==
    /\ status = "running" /\ pcI = "wallet" /\ walletsTodo = <<>>
    /\ pcI' = "acquire"
    /\ UNCHANGED <<procVars, storeVars, sharedVars, discVars, walletsTodo, pending,
                   transaction_hashes, notifyVars, envVars, ethVars, matchVars, histVars>>

fetch_wallet_transactions ==
    \/ IngestWait
    \/ IngestAcquire
    \/ IngestWallet
    \/ IngestCommit
    \/ IngestPush
    \/ IngestEndSweep

\* ---------------------------------------------- export_wallet_transactions
CHAT_ID == "chat"

\* select(ChatMessage).filter_by(transaction_hash=transaction_hash)
AlreadyExported(h) == \E m \in chat_messages : m.transaction_hash = h

\* self._Session.get(Transaction, transaction_hash)
GetTransaction(h) == {r \in transactions : r.hash = h}

\* A receiver that hands out the newest item of the stream.
NotifyReceiveLast ==
    /\ status = "running" /\ pcN = "recv" /\ channel # <<>>
    /\ channel' = SubSeq(channel, 1, Len(channel) - 1)
    /\ IF AlreadyExported(channel[Len(channel)]) \/ GetTransaction(channel[Len(channel)]) = {}
       THEN UNCHANGED <<pcN, transaction_hash>>
       ELSE /\ transaction_hash' = channel[Len(channel)]
            /\ pcN' = "acquire"
    /\ UNCHANGED <<procVars, storeVars, event, level, discVars, ingestVars, message_id,
                   sleepN, throttles, envVars, ethVars, matchVars, histVars>>

\* async for transaction_hash in receiver, with the two lookups that follow:
\* a hash that has a ChatMessage, or no Transaction, is skipped.
NotifyReceive ==
    /\ status = "running" /\ pcN = "recv" /\ channel # <<>>
    /\ channel' = Tail(channel)
    /\ IF AlreadyExported(Head(channel)) \/ GetTransaction(Head(channel)) = {}
       THEN UNCHANGED <<pcN, transaction_hash>>
       ELSE /\ transaction_hash' = Head(channel)
            /\ pcN' = "acquire"
    /\ UNCHANGED <<procVars, storeVars, event, level, discVars, ingestVars, message_id,
                   sleepN, throttles, envVars, ethVars, matchVars, histVars>>

\* async with self.EXPORT_LIMITER
NotifyAcquire ==
    /\ status = "running" /\ pcN = "acquire"
    /\ Acquire("EXPORT_LIMITER")
    /\ pcN' = "send"
    /\ UNCHANGED <<procVars, storeVars, event, channel, discVars, ingestVars,
                   transaction_hash, message_id, sleepN, throttles, envVars, ethVars, matchVars,
                   forwardCount, sentCount, ingestHist, attempt, authHist>>

\* Transaction.address_url raises ValueError for an address of neither
\* grammar; export_transaction calls it, outside any handler, for the sender
\* and for the recipient of every amount while it builds the text.
AddressUrlRaises(address) == ~(IsBTC(address) \/ IsTRON(address))

RenderRaises(h) ==
    \/ \E r \in GetTransaction(h) : AddressUrlRaises(r.from_address)
    \/ \E a \in amounts : a.transaction_hash = h /\ AddressUrlRaises(a.to_address)

\* The text of the message cannot be built: the ValueError leaves
\* export_transaction and export_wallet_transactions.
NotifyRenderFails ==
    /\ status = "running" /\ pcN = "send" /\ attempt.hash = NoHash
    /\ RenderRaises(transaction_hash)
    /\ Fail("notification")
    /\ UNCHANGED <<storeVars, visited, envVars, ethVars, matchVars, forwardCount, sentCount, backfilled,
                   eligible, observed, swept, fetchedBy, lateDone, authHist>>

\* What export_transaction does with the sink's answer to one send_message:
\* a message id ends the loop, TelegramRetryAfter sleeps retry_after and loops.
OnThrottleGiveUp(retry_after) ==
    /\ pcN' = "recv"
    /\ transaction_hash' = NoHash
    /\ UNCHANGED <<sleepN, message_id, nextMessageId, sentCount, chat_messages>>

OnThrottleNoSleep(retry_after) ==
    /\ sleepN' = 0
    /\ UNCHANGED <<pcN, transaction_hash, message_id, nextMessageId, sentCount,
                   chat_messages>>

OnThrottleRecord(retry_after) ==
    /\ sleepN' = retry_after
    /\ chat_messages' = chat_messages \cup
           {[chat_id |-> CHAT_ID, message_id |-> nextMessageId,
             transaction_hash |-> transaction_hash]}
    /\ nextMessageId' = nextMessageId + 1
    /\ UNCHANGED <<pcN, transaction_hash, message_id, sentCount>>

OnThrottle(retry_after) ==
    /\ sleepN' = retry_after
    /\ UNCHANGED <<pcN, transaction_hash, message_id, nextMessageId, sentCount,
                   chat_messages>>

\* A send whose caller keeps another id than the one the sink returned.
OnSentWrongId ==
    /\ message_id' = nextMessageId + 1
    /\ nextMessageId' = nextMessageId + 1
    /\ sentCount' = [sentCount EXCEPT ![transaction_hash] = Bump(@)]
    /\ pcN' = "record"
    /\ UNCHANGED <<sleepN, transaction_hash, chat_messages>>

OnSent ==
    /\ message_id' = nextMessageId
    /\ nextMessageId' = nextMessageId + 1
    /\ sentCount' = [sentCount EXCEPT ![transaction_hash] = Bump(@)]
    /\ pcN' = "record"
    /\ UNCHANGED <<sleepN, transaction_hash, chat_messages>>

\* One pass of export_transaction's `while True`: a send_message call, made
\* once the sleep of the previous pass is over.  The sink throttles one
\* message at most MaxThrottles times.
export_transaction ==
    /\ status = "running" /\ pcN = "send" /\ sleepN = 0
    /\ ~RenderRaises(transaction_hash)
    /\ \/ /\ OnSent
          /\ attempt' = NoAttempt
          /\ UNCHANGED throttles
       \/ /\ throttles < MaxThrottles
          /\ \E retry_after \in 1..MaxRetryAfter :
                /\ OnThrottle(retry_after)
                /\ attempt' = [hash |-> transaction_hash, retry_after |-> retry_after,
                               elapsed |-> 0]
          /\ throttles' = throttles + 1
    /\ UNCHANGED <<procVars, wallets, tokens, transactions, amounts, sharedVars,
                   discVars, ingestVars, visible, login_ok, listing_ok, repeated_output, ethVars, matchVars, forwardCount,
                   ingestHist, limitHist, authHist>>

\* A record step that takes the forwarded Transaction out of storage.
NotifyRecordConsume ==
    /\ status = "running" /\ pcN = "record"
    /\ transactions' = transactions \ GetTransaction(transaction_hash)
    /\ pcN' = "recv"
    /\ transaction_hash' = NoHash
    /\ message_id' = None
    /\ throttles' = 0
    /\ UNCHANGED <<procVars, wallets, tokens, amounts, chat_messages, sharedVars,
                   discVars, ingestVars, sleepN, envVars, ethVars, matchVars, histVars>>

\* with suppress(IntegrityError): add(ChatMessage(...)); commit().  The
\* primary key is (chat_id, message_id); transaction_hash is a foreign key.
NotifyRecord ==
    /\ status = "running" /\ pcN = "record"
    /\ LET row == [chat_id |-> CHAT_ID, message_id |-> message_id,
                   transaction_hash |-> transaction_hash]
           conflict ==
               \/ \E m \in chat_messages :
                      m.chat_id = row.chat_id /\ m.message_id = row.message_id
               \/ GetTransaction(transaction_hash) = {}
       IN  chat_messages' = IF conflict THEN chat_messages ELSE chat_messages \cup {row}
    /\ pcN' = "recv"
    /\ transaction_hash' = NoHash
    /\ message_id' = None
    /\ throttles' = 0
    /\ UNCHANGED <<procVars, wallets, tokens, transactions, amounts, sharedVars,
                   discVars, ingestVars, sleepN, envVars, ethVars, matchVars, histVars>>

export_wallet_transactions ==
    \/ NotifyReceive
    \/ NotifyAcquire
    \/ NotifyRenderFails
    \/ export_transaction
    \/ NotifyRecord

\* ------------------------------------------------------------ fetch_wallets
\* select(now() - max(Wallet.updated_at)).filter_by(host=host.value)
TimeSince(rows, host) ==
    LET ages == {w.age : w \in {x \in rows : x.host = host}}
    IN  IF ages = {} THEN None
        ELSE CHOOSE a \in ages : \A b \in ages : a <= b

\* self._Session.merge(Wallet(host, name, address, updated_at=now))
Merge(rows, host, address) ==
    {w \in rows : w.address # address}
        \cup {[address |-> address, host |-> host, age |-> 0]}

RECURSIVE MergeAll(_, _, _)
MergeAll(rows, host, addresses) ==
    IF addresses = {} THEN rows
    ELSE Only({MergeAll(merged, host, rest) :
                   merged \in {Merge(rows, host, Only(addresses))},
                   rest \in {addresses \ {Only(addresses)}}})

\* A host loop that a failed login ends like a failed listing.
RECURSIVE RefreshHostsLoginFatal(_, _, _, _)
RefreshHostsLoginFatal(hosts, rows, oldest, called) ==
    IF hosts = <<>>
    THEN [wallets |-> rows, oldest_time_since |-> oldest, called |-> called,
          left |-> hosts, raised |-> FALSE]
    ELSE Only({
             IF time_since # None /\ time_since < WALLETS_PERIOD
             THEN RefreshHostsLoginFatal(Tail(hosts), rows,
                               IF oldest = None \/ oldest < time_since
                               THEN time_since ELSE oldest,
                               called)
             ELSE IF ~login_ok[host] \/ ~listing_ok[host]
             THEN [wallets |-> rows, oldest_time_since |-> oldest,
                   called |-> called \cup {host}, left |-> Tail(hosts),
                   raised |-> TRUE]
             ELSE Only({RefreshHostsLoginFatal(Tail(hosts), merged, oldest, called \cup {host}) :
                           merged \in {MergeAll(rows, host, Listing(host))}}) :
             host \in {Head(hosts)}, time_since \in {TimeSince(rows, Head(hosts))}})

\* The `for host in WalletHost` loop: a host refreshed less than
\* WALLETS_PERIOD ago is skipped and the largest such time_since is kept;
\* for any other host the login call is made and, when it answers with a
\* token, the listing is fetched, merged and committed.  A listing call that
\* fails returns None (or a malformed body), and reading the wallets out of it
\* raises: the loop ends there, with the earlier hosts' commits in place.  The
\* result is the wallets, oldest_time_since, the hosts whose login was called,
\* the hosts the loop has not come to and whether the loop raised.
RECURSIVE RefreshHosts(_, _, _, _)
RefreshHosts(hosts, rows, oldest, called) ==
    IF hosts = <<>>
    THEN [wallets |-> rows, oldest_time_since |-> oldest, called |-> called,
          left |-> hosts, raised |-> FALSE]
    ELSE Only({
             IF time_since # None /\ time_since < WALLETS_PERIOD
             THEN RefreshHosts(Tail(hosts), rows,
                               IF oldest = None \/ oldest < time_since
                               THEN time_since ELSE oldest,
                               called)
             ELSE IF ~login_ok[host]
             THEN RefreshHosts(Tail(hosts), rows, oldest, called \cup {host})
             ELSE IF ~listing_ok[host]
             THEN [wallets |-> rows, oldest_time_since |-> oldest,
                   called |-> called \cup {host}, left |-> Tail(hosts),
                   raised |-> TRUE]
             ELSE Only({RefreshHosts(Tail(hosts), merged, oldest, called \cup {host}) :
                           merged \in {MergeAll(rows, host, Listing(host))}}) :
             host \in {Head(hosts)}, time_since \in {TimeSince(rows, Head(hosts))}})

\* A sleep of the whole period after every round.
TimeToSleepWhole(oldest) == WALLETS_PERIOD

\* time_to_sleep = WALLETS_PERIOD, less oldest_time_since when there is one
TimeToSleep(oldest) ==
    IF oldest # None THEN WALLETS_PERIOD - oldest ELSE WALLETS_PERIOD

\* One pass of `while not index`, entered at start and whenever the sleep of
\* the previous pass is over: the hosts, Session.remove(), event.set(), and
\* the sleep that follows; or the hosts up to the one whose listing raises.
fetch_wallets ==
    /\ status = "running" /\ sleepD = 0
    /\ \E r \in {RefreshHosts(WalletHost, wallets, None, {})} :
       /\ wallets' = r.wallets
       /\ sinceAuth' = [h \in Hosts |-> IF h \in r.called THEN 0 ELSE sinceAuth[h]]
       /\ authGap' = [h \in Hosts |-> IF h \in r.called THEN sinceAuth[h] ELSE authGap[h]]
       /\ visited' = Hosts \ {r.left[i] : i \in 1..Len(r.left)}
       /\ IF r.raised
          THEN /\ Fail("discovery")
               /\ UNCHANGED <<forwardCount, sentCount, backfilled, eligible, observed,
                              swept, fetchedBy, lateDone>>
          ELSE /\ sleepD' = TimeToSleep(r.oldest_time_since)
               /\ event' = TRUE
               /\ UNCHANGED <<procVars, channel, level, ingestVars, notifyVars,
                              forwardCount, sentCount, ingestHist, attempt, limitHist>>
    /\ UNCHANGED <<tokens, transactions, amounts, chat_messages, envVars, ethVars, matchVars>>

\* ------------------------------------------------------------- environment
\* A transaction is mined: the explorers return it from now on.
Appear ==
    /\ \E h \in Hashes \ visible : visible' = visible \cup {h}
    /\ UNCHANGED <<procVars, storeVars, sharedVars, discVars, ingestVars, notifyVars,
                   login_ok, listing_ok, repeated_output, ethVars, matchVars, nextMessageId, histVars>>

Later(x, d, cap) == IF x = None THEN None ELSE Min(x + d, cap)

\* The wait of a throttled attempt grows only while there is one.
Waited(a, d) ==
    IF a.hash = NoHash THEN a ELSE [a EXCEPT !.elapsed = Min(@ + d, MaxRetryAfter)]

\* Time has two grains.  The waits of seconds (the sleep after a throttle
\* answer, the delivery limiter) are counted in seconds; the waits of minutes
\* (the sweep limiter, the sleep between refresh passes, the age of a wallet
\* row) are counted in refresh periods, and a wait of seconds does not shorten
\* them.
FineLimiters == {"EXPORT_LIMITER"}

\* d seconds pass on the timers counted in seconds.
AdvanceSeconds(d) ==
    /\ level' = [l \in Limiters |-> IF l \in FineLimiters THEN Max(level[l] - d, 0)
                                    ELSE level[l]]
    /\ sleepN' = Max(sleepN - d, 0)
    /\ attempt' = Waited(attempt, d)
    /\ sinceAcquire' = [l \in Limiters |->
                           IF l \in FineLimiters
                           THEN Later(sinceAcquire[l], d, Period(l)) ELSE sinceAcquire[l]]
    /\ UNCHANGED <<wallets, sleepD, sinceAuth>>

\* A refresh period passes: every timer moves, the short ones run out.
AdvancePeriod ==
    /\ wallets' = {[w EXCEPT !.age = Min(w.age + WALLETS_PERIOD, WALLETS_PERIOD)] :
                       w \in wallets}
    /\ level' = [l \in Limiters |-> Max(level[l] - WALLETS_PERIOD, 0)]
    /\ sleepD' = Max(sleepD - WALLETS_PERIOD, 0)
    /\ sleepN' = Max(sleepN - WALLETS_PERIOD, 0)
    /\ attempt' = Waited(attempt, WALLETS_PERIOD)
    /\ sinceAcquire' = [l \in Limiters |->
                           Later(sinceAcquire[l], WALLETS_PERIOD, Period(l))]
    /\ sinceAuth' = [h \in Hosts |-> Later(sinceAuth[h], WALLETS_PERIOD, WALLETS_PERIOD)]

\* What each task is waiting for when it cannot take a step.
DiscoveryWaits == sleepD > 0
IngestionWaits ==
    \/ pcI = "wait" /\ ~event
    \/ pcI = "acquire" /\ ~HasCapacity("TRANSACTIONS_LIMITER")
NotificationWaits ==
    \/ pcN = "recv" /\ channel = <<>>
    \/ pcN = "acquire" /\ ~HasCapacity("EXPORT_LIMITER")
    \/ pcN = "send" /\ sleepN > 0

\* The waits of seconds that are under way, and the first of them to end.
DueSeconds ==
    ((IF pcN = "acquire" THEN {level["EXPORT_LIMITER"]} ELSE {})
        \cup (IF pcN = "send" THEN {sleepN} ELSE {})) \ {0}
NextDue == CHOOSE d \in DueSeconds : \A e \in DueSeconds : d <= e

\* The steps of the tasks take no time: time passes while all three tasks
\* wait, up to the moment the first of them can go on.
Tick ==
    /\ status = "running"
    /\ DiscoveryWaits /\ IngestionWaits /\ NotificationWaits
    /\ IF DueSeconds # {} THEN AdvanceSeconds(NextDue) ELSE AdvancePeriod
    /\ UNCHANGED <<procVars, tokens, transactions, amounts, chat_messages, event,
                   channel, visited, ingestVars, pcN, transaction_hash, message_id,
                   throttles, envVars, ethVars, matchVars, forwardCount, sentCount, ingestHist, acquireGap,
                   authGap>>

\* The program stays down for a refresh period before it is started again.
Outage ==
    /\ status = "down"
    /\ AdvancePeriod
    /\ UNCHANGED <<procVars, tokens, transactions, amounts, chat_messages, event,
                   channel, visited, ingestVars, pcN, transaction_hash, message_id,
                   throttles, envVars, ethVars, matchVars, forwardCount, sentCount, ingestHist, acquireGap,
                   authGap>>

\* The process is cancelled (or killed) between two steps: the task group
\* cancels the three tasks, uncommitted session work is rolled back, the
\* stream and the limiters go with the process.  Storage stays.
Cancel ==
    /\ status = "running" /\ restarts < MaxRestarts
    /\ status' = "down"
    /\ restarts' = restarts + 1
    /\ Started
    /\ UNCHANGED <<error, visited, storeVars, envVars, ethVars, matchVars, forwardCount, sentCount, backfilled, eligible,
                   observed, swept, fetchedBy, lateDone, authHist>>

\* The process manager starts the program again.
Restart ==
    /\ status = "down"
    /\ status' = "running"
    /\ error' = NoError
    /\ visited' = {}
    /\ UNCHANGED <<restarts, storeVars, sharedVars, sleepD, ingestVars, notifyVars,
                   envVars, ethVars, matchVars, histVars>>

\* ------------------------------------ fetch_ethereum_wallet_transactions
\* The function is defined next to the two fetches the sweep calls; no stage
\* calls it.  It is modelled as one call, made by a task of a task group, with
\* the cancellation of that task's scope arriving at any of its awaits.
EthHashes == {"e1", "e2", "e3"}

\* The entries of data['result']: e1 is a plain transfer (input '0x'), e2 and
\* e3 call the same token contract.
EthTx(h) ==
    CASE h = "e1" -> [hash |-> "e1", input |-> "0x", to |-> "0xrecipient"]
      [] h = "e2" -> [hash |-> "e2", input |-> "transfer", to |-> "0xtoken"]
      [] OTHER    -> [hash |-> "e3", input |-> "transfer", to |-> "0xtoken"]

\* The lists the txlist call may answer with: any of the entries, in any order.
EthResults ==
    UNION {{[i \in 1..Cardinality(S) |-> EthTx(order[i])] : order \in Perms(S)} :
              S \in SUBSET EthHashes}

EthIdle ==
    /\ ethPc = "idle" /\ ethResult = <<>> /\ eth_transactions = <<>>
    /\ ETHEREUM_TOKENS = {} /\ ETHEREUM_CONTRACTS = {}
    /\ ethCancelled = FALSE /\ ethSwallowed = 0

\* The call is made and suspends in session.get of the txlist request.
EthCall ==
    /\ ethPc = "idle"
    /\ ethPc' = "list"
    /\ UNCHANGED <<pipelineVars, matchVars, ethResult, eth_transactions, ETHEREUM_TOKENS,
                   ETHEREUM_CONTRACTS, ethCancelled, ethSwallowed>>

\* The txlist request ends, outside any handler: a cancellation leaves the
\* function, a non-OK response returns, an OK response starts the loop.
EthListed ==
    /\ ethPc = "list"
    /\ IF ethCancelled
       THEN ethPc' = "raised" /\ UNCHANGED ethResult
       ELSE \/ ethPc' = "returned" /\ UNCHANGED ethResult
            \/ \E result \in EthResults : ethPc' = "loop" /\ ethResult' = result
    /\ UNCHANGED <<pipelineVars, matchVars, eth_transactions, ETHEREUM_TOKENS,
                   ETHEREUM_CONTRACTS, ethCancelled, ethSwallowed>>

\* transactions.append(Transaction(...)) and on to the next entry.
EthAppend ==
    /\ eth_transactions' = Append(eth_transactions, Head(ethResult).hash)
    /\ ethResult' = Tail(ethResult)
    /\ ethPc' = "loop"

\* `continue`: the entry is dropped.
EthContinue ==
    /\ ethResult' = Tail(ethResult)
    /\ ethPc' = "loop"
    /\ UNCHANGED eth_transactions

\* After the token is known: the contract is looked up and, when it is not
\* cached, the getabi request is made; else the input is decoded.
EthContract(contracts) ==
    IF Head(ethResult).to \notin contracts
    THEN ethPc' = "abi" /\ UNCHANGED <<ethResult, eth_transactions>>
    ELSE EthAppend

\* The head of the `for tx in data['result']` loop up to its next await.
EthLoop ==
    /\ ethPc = "loop"
    /\ IF ethResult = <<>>
       THEN ethPc' = "returned" /\ UNCHANGED <<ethResult, eth_transactions>>
       ELSE IF Head(ethResult).input = "0x"
       THEN EthAppend
       ELSE IF Head(ethResult).to \notin ETHEREUM_TOKENS
       THEN ethPc' = "tokentx" /\ UNCHANGED <<ethResult, eth_transactions>>
       ELSE EthContract(ETHEREUM_CONTRACTS)
    /\ UNCHANGED <<pipelineVars, matchVars, ETHEREUM_TOKENS, ETHEREUM_CONTRACTS, ethCancelled,
                   ethSwallowed>>

\* What `except BaseException as _: continue` does with a cancellation raised
\* by an await inside the try.
EthOnCancelled ==
    /\ EthContinue
    /\ ethSwallowed' = ethSwallowed + 1

\* The tokentx request ends, inside the try: a cancellation is handled by the
\* except clause, a non-OK response continues, an OK response caches the
\* Token.
EthTokenTx ==
    /\ ethPc = "tokentx"
    /\ IF ethCancelled
       THEN EthOnCancelled /\ UNCHANGED ETHEREUM_TOKENS
       ELSE \/ EthContinue /\ UNCHANGED <<ETHEREUM_TOKENS, ethSwallowed>>
            \/ /\ ETHEREUM_TOKENS' = ETHEREUM_TOKENS \cup {Head(ethResult).to}
               /\ EthContract(ETHEREUM_CONTRACTS)
               /\ UNCHANGED ethSwallowed
    /\ UNCHANGED <<pipelineVars, matchVars, ETHEREUM_CONTRACTS, ethCancelled>>

\* The getabi request ends, inside the try.
EthAbi ==
    /\ ethPc = "abi"
    /\ IF ethCancelled
       THEN EthOnCancelled /\ UNCHANGED ETHEREUM_CONTRACTS
       ELSE \/ EthContinue /\ UNCHANGED <<ETHEREUM_CONTRACTS, ethSwallowed>>
            \/ /\ ETHEREUM_CONTRACTS' = ETHEREUM_CONTRACTS \cup {Head(ethResult).to}
               /\ EthAppend
               /\ UNCHANGED ethSwallowed
    /\ UNCHANGED <<pipelineVars, matchVars, ETHEREUM_TOKENS, ethCancelled>>

fetch_ethereum_wallet_transactions ==
    \/ EthCall
    \/ EthListed
    \/ EthLoop
    \/ EthTokenTx
    \/ EthAbi

\* The cancel scope of the calling task is cancelled while the call is
\* suspended in a request.  The scope stays cancelled: every await that
\* follows raises the cancellation again.
EthCancel ==
    /\ ethPc \in {"list", "tokentx", "abi"} /\ ~ethCancelled
    /\ ethCancelled' = TRUE
    /\ UNCHANGED <<pipelineVars, matchVars, ethPc, ethResult, eth_transactions, ETHEREUM_TOKENS,
                   ETHEREUM_CONTRACTS, ethSwallowed>>

\* --------------------------------------------------- address classification
\* An address is a sequence of characters, each a one-character string.
Lower ==
    {"a", "b", "c", "d", "e", "f", "g", "h", "i", "j", "k", "l", "m", "n",
     "o", "p", "q", "r", "s", "t", "u", "v", "w", "x", "y", "z"}
Upper ==
    {"A", "B", "C", "D", "E", "F", "G", "H", "I", "J", "K", "L", "M", "N",
     "O", "P", "Q", "R", "S", "T", "U", "V", "W", "X", "Y", "Z"}
Digits ==
    {"0", "1", "2", "3", "4", "5", "6", "7", "8", "9"}
Newline == "\n"

\* The character class [a-zA-HJ-NP-Z0-9] of BTC_REGEXP and the class
\* [A-Za-z1-9] of TRON_REGEXP.
BTC_CLASS == Lower \cup (Upper \ {"I", "O"}) \cup Digits
TRON_CLASS == Upper \cup Lower \cup (Digits \ {"0"})

\* The repetition counts {25,39} and {33} of the two patterns.
BTC_MIN == 25
BTC_MAX == 39
TRON_LEN == 33

\* (bc1|[13])
BTC_PREFIXES == {<<"b", "c", "1">>, <<"1">>, <<"3">>}

StartsWith(s, p) == Len(s) >= Len(p) /\ \A i \in 1..Len(p) : s[i] = p[i]

\* `$` without re.MULTILINE: the end of the string, or the position before a
\* newline that is the string's last character.
AtDollar(s, pos) ==
    \/ pos = Len(s)
    \/ pos + 1 = Len(s) /\ s[Len(s)] = Newline

\* match(Transaction.BTC_REGEXP, s) for r'^(bc1|[13])[a-zA-HJ-NP-Z0-9]{25,39}$':
\* some prefix and some repetition count lead to `$`.
BTC_REGEXP(s) ==
    \E p \in BTC_PREFIXES : \E n \in BTC_MIN..BTC_MAX :
        /\ StartsWith(s, p)
        /\ Len(s) >= Len(p) + n
        /\ \A i \in (Len(p) + 1)..(Len(p) + n) : s[i] \in BTC_CLASS
        /\ AtDollar(s, Len(p) + n)

\* match(Transaction.TRON_REGEXP, s) for r'T[A-Za-z1-9]{33}': re.match anchors
\* the pattern at the start of the string; nothing anchors its end.
TRON_REGEXP(s) ==
    /\ Len(s) >= 1 + TRON_LEN
    /\ s[1] = "T"
    /\ \A i \in 2..(1 + TRON_LEN) : s[i] \in TRON_CLASS

\* The if / elif / else of the sweep over the wallets.
NoTag == "none"
Classify(s) ==
    IF BTC_REGEXP(s) THEN "bitcoin"
    ELSE IF TRON_REGEXP(s) THEN "tron"
    ELSE "unknown"

\* The addresses classified: a prefix, a run of one character of a length
\* around the repetition counts, its last character replaced or not, and what
\* follows; and the two addresses the specification gives as examples.
Run(c, n) == [i \in 1..n |-> c]
Prefixes == BTC_PREFIXES \cup {<<"T">>, <<"b", "c">>, <<"2">>, <<"t">>}
RunLengths == {BTC_MIN - 1, BTC_MIN, TRON_LEN - 1, TRON_LEN, TRON_LEN + 1, BTC_MAX, BTC_MAX + 1}
LastChars == {"a", "7", "I", "O", "l", "0", "-"}
Suffixes == {<<>>, <<Newline>>, <<"x">>, <<Newline, Newline>>}
BTC_EXAMPLE ==
    <<"1", "B", "o", "a", "t", "S", "L", "R", "H", "t", "K", "N", "n", "g",
      "k", "d", "X", "E", "e", "o", "b", "R", "7", "6", "b", "5", "3", "L",
      "E", "T", "t", "p", "y", "T">>
TRON_EXAMPLE ==
    <<"T", "L", "a", "2", "f", "6", "V", "P", "q", "D", "g", "R", "E", "6",
      "7", "v", "1", "7", "3", "6", "s", "7", "b", "J", "8", "R", "a", "y",
      "5", "w", "Y", "j", "U", "7">>
Candidates ==
    {p \o Run("a", n - 1) \o <<c>> \o x :
         p \in Prefixes, n \in RunLengths, c \in LastChars, x \in Suffixes}
        \cup {BTC_EXAMPLE, TRON_EXAMPLE}

\* if match(BTC_REGEXP, wallet.address) ... elif match(TRON_REGEXP, ...) ... else
ClassifyWallet ==
    /\ chainTag = NoTag /\ candidate # <<>>
    /\ chainTag' = Classify(candidate)
    /\ UNCHANGED <<pipelineVars, ethVars, candidate>>

\* ------------------------------------------------------------ specification
Booted ==
    /\ status = "running" /\ restarts = 0 /\ error = NoError
    /\ tokens = {} /\ transactions = {} /\ amounts = {}
    /\ chat_messages = {}
    /\ event = FALSE /\ channel = <<>> /\ level = [l \in Limiters |-> 0]
    /\ sleepD = 0 /\ visited = {}
    /\ pcI = "wait" /\ walletsTodo = <<>> /\ pending = EmptySession
    /\ transaction_hashes = <<>>
    /\ pcN = "recv" /\ transaction_hash = NoHash /\ message_id = None
    /\ sleepN = 0 /\ throttles = 0
    /\ visible = {} /\ nextMessageId = 1
    /\ login_ok \in LoginOutcomes /\ listing_ok \in ListingOutcomes
    /\ (\E host \in Hosts : ~listing_ok[host]) => (\A host \in Hosts : login_ok[host])
    /\ forwardCount = [h \in Hashes |-> 0] /\ sentCount = [h \in Hashes |-> 0]
    /\ backfilled = {} /\ eligible = {} /\ observed = {} /\ batch = NoBatch
    /\ swept = {} /\ fetchedBy = [a \in Addresses |-> {}] /\ lateDone = {}
    /\ attempt = NoAttempt
    /\ sinceAcquire = [l \in Limiters |-> None]
    /\ acquireGap = [l \in Limiters |-> None]
    /\ sinceAuth = [h \in Hosts |-> None]
    /\ authGap = [h \in Hosts |-> None]
    /\ EthIdle
    /\ chainTag = NoTag

\* The state after construction, with no wallet stored yet, on a chain whose
\* transactions pay each recipient in one output.
Init == Booted /\ wallets = {} /\ repeated_output = FALSE /\ candidate = <<>>

\* The same on a chain where h3 pays its recipient in two outputs.
RepeatedInit == Booted /\ wallets = {} /\ repeated_output = TRUE /\ candidate = <<>>

\* The Wallet tables earlier runs may have left: the rows of a provider were
\* merged in one pass, so they have one age; the ages are thirds of the
\* refresh period.
Third == WALLETS_PERIOD \div 3
Ages == {0, Third, 2 * Third, WALLETS_PERIOD}

HostRows(host, age) ==
    IF age = None THEN {}
    ELSE {[address |-> address, host |-> host, age |-> age] : address \in Listing(host)}

StoredWallets ==
    {UNION {HostRows(host, age[host]) : host \in Hosts} :
         age \in [Hosts -> Ages \cup {None}]}

\* run() starts on a Wallet table left by earlier runs.
SleepInit ==
    Booted /\ wallets \in StoredWallets /\ repeated_output = FALSE /\ candidate = <<>>

\* A third of the refresh period passes while Discovery sleeps.
SleepElapse ==
    /\ status = "running" /\ sleepD > 0
    /\ wallets' = {[w EXCEPT !.age = Min(w.age + Third, WALLETS_PERIOD)] : w \in wallets}
    /\ sleepD' = Max(sleepD - Third, 0)
    /\ sinceAuth' = [h \in Hosts |-> Later(sinceAuth[h], Third, WALLETS_PERIOD)]
    /\ UNCHANGED <<procVars, tokens, transactions, amounts, chat_messages, sharedVars,
                   visited, ingestVars, notifyVars, envVars, ethVars, matchVars, forwardCount,
                   sentCount, ingestHist, attempt, limitHist, authGap>>

Next ==
    \/ fetch_wallets
    \/ fetch_wallet_transactions
    \/ export_wallet_transactions
    \/ IngestFetchFails
    \/ Appear
    \/ Tick
    \/ Cancel
    \/ Outage
    \/ Restart

Spec == Init /\ [][Next]_vars

\* The event loop runs every task that can take a step, and time passes.
Fairness ==
    /\ WF_vars(fetch_wallets)
    /\ WF_vars(fetch_wallet_transactions)
    /\ WF_vars(export_wallet_transactions)
    /\ WF_vars(Tick)

\* The program under a process manager that always starts it again.
FairSpec == Spec /\ Fairness /\ WF_vars(Restart)

\* The program when nothing cancels it.
SteadyNext ==
    \/ fetch_wallets
    \/ fetch_wallet_transactions
    \/ export_wallet_transactions
    \/ Appear
    \/ Tick

SteadySpec == Init /\ [][SteadyNext]_vars /\ Fairness

\* One call of fetch_ethereum_wallet_transactions, the pipeline left as run()
\* finds it and every provider answering.
EthInit ==
    /\ Init
    /\ \A host \in Hosts : login_ok[host] /\ listing_ok[host]

EthNext ==
    \/ fetch_ethereum_wallet_transactions
    \/ EthCancel

EthSpec == EthInit /\ [][EthNext]_vars

RepeatedSpec == RepeatedInit /\ [][Next]_vars

\* Discovery alone, over its rounds and sleeps.
SleepNext ==
    \/ fetch_wallets
    \/ SleepElapse

SleepSpec == SleepInit /\ [][SleepNext]_vars

\* The classification of one stored address, over the addresses of Candidates.
ClassifyInit ==
    Booted /\ wallets = {} /\ repeated_output = FALSE /\ candidate \in Candidates

ClassifyNext == ClassifyWallet

ClassifySpec == ClassifyInit /\ [][ClassifyNext]_vars

\* ------------------------------------------------------------------ claims
RowsOf(h) == {r \in transactions : r.hash = h}
Persisted(h) == RowsOf(h) # {}
MessagesOf(h) == {m \in chat_messages : m.transaction_hash = h}

C2_DedupIdempotent ==
    /\ [](\A h \in Hashes : Cardinality(RowsOf(h)) <= 1)
    /\ [][\A h \in observed : RowsOf(h)' = RowsOf(h)]_vars

\* A batch whose fetch returned only hashes seen before is about to commit:
\* every insert of it was rejected.
C2_Witness ==
    /\ pcI = "commit" /\ batch.fetched # {} /\ batch.fetched \subseteq observed
    /\ pending.transactions = {}

\* C3: a transaction inserted by a batch whose marker was absent is persisted
\* and is never pushed onto the channel, and such a batch pushes nothing.
C3_NoFloodOnBackfill ==
    /\ \A h \in backfilled : Persisted(h) /\ forwardCount[h] = 0
    /\ (pcI \in {"commit", "push"} /\ batch.marker = None) => transaction_hashes = <<>>

\* A wallet's first batch has committed two pre-existing transactions, later
\* sweeps have run, and nothing of them was pushed.
C3_Witness ==
    /\ Cardinality(backfilled) >= 2 /\ swept = Addresses
    /\ pcI = "push" /\ batch.marker # None

\* C4: a transaction that a wallet's fetch returns for the first time after
\* the wallet's first batch was committed is, once its batch has finished,
\* persisted and pushed onto the channel (whatever the number N of
\* transactions the first batch found, N = 0 included).
C4_LaterTransactionForwarded ==
    \A h \in lateDone : Persisted(h) /\ forwardCount[h] >= 1

\* C5: no transaction hash is pushed onto the channel more than once.
C5_ForwardedAtMostOnce ==
    \A h \in Hashes : forwardCount[h] <= 1

\* A hash pushed by one wallet's batch is fetched again by the other wallet's
\* batch, which has finished its pushes.
C5_Witness ==
    /\ forwardCount["h2"] = 1 /\ batch.wallet = W2 /\ "h2" \in batch.fetched
    /\ pcI = "push" /\ transaction_hashes = <<>>

\* C6: every hash committed as forwarding-eligible is eventually accepted by
\* the sink, cancellations followed by a restart included.
C6_EligibleEventuallyDelivered ==
    \A h \in Hashes : (h \in eligible) ~> (sentCount[h] >= 1)

\* C7: while a throttle answer with retry_after = d is being waited out, the
\* next send_message call is for the same hash and comes at least d seconds
\* after the answer; no call for another hash comes in between.
C7_ThrottleWaitedOut ==
    [][(export_transaction /\ attempt.hash # NoHash) =>
          (transaction_hash = attempt.hash /\ attempt.elapsed >= attempt.retry_after)]_vars

\* The second throttle answer to one message, the largest wait, has been
\* waited out while another hash is queued on the channel.
C7_Witness ==
    /\ pcN = "send" /\ throttles = 2 /\ channel # <<>>
    /\ attempt.hash = transaction_hash /\ attempt.retry_after = MaxRetryAfter
    /\ attempt.elapsed = attempt.retry_after /\ sleepN = 0

\* C8: a message the sink has answered with a throttle is eventually
\* accepted and recorded, once each: whatever the number of throttle answers,
\* the sink accepts it exactly once and exactly one ChatMessage holds it.
C8_ThrottledEventuallyDelivered ==
    /\ \A h \in Hashes :
           (attempt.hash = h) ~> (sentCount[h] = 1 /\ Cardinality(MessagesOf(h)) = 1)
    /\ [](\A h \in Hashes : sentCount[h] <= 1 /\ Cardinality(MessagesOf(h)) <= sentCount[h])

\* The sink has accepted a message it had throttled twice; its record is
\* about to be written.
C8_Witness ==
    /\ pcN = "record" /\ throttles >= 2 /\ sentCount[transaction_hash] = 1
    /\ MessagesOf(transaction_hash) = {}

\* C9: for each limiter, an acquisition comes no sooner than the limiter's
\* period after the previous acquisition of the same limiter.
C9_OneAcquisitionPerPeriod ==
    \A l \in Limiters : acquireGap[l] = None \/ acquireGap[l] >= Period(l)

\* Both limiters the program acquires were acquired again after a full
\* period, and Ingestion is being held back by the sweep limiter.
C9_Witness ==
    /\ acquireGap["EXPORT_LIMITER"] = EXPORT_PERIOD
    /\ acquireGap["TRANSACTIONS_LIMITER"] = TRANSACTIONS_PERIOD
    /\ pcI = "acquire" /\ ~HasCapacity("TRANSACTIONS_LIMITER")

\* C10: a login call against a provider comes no sooner than WALLETS_PERIOD
\* after the previous login call against the same provider.
C10_AuthCallsSpaced ==
    \A h \in Hosts : authGap[h] = None \/ authGap[h] >= WALLETS_PERIOD

\* C11: Ingestion takes no step past its wait (no wallet read, no fetch, no
\* insert) while the Event is not set; the Event is set only when the host
\* loop of Discovery has gone through every provider; and once set it stays
\* set for as long as the process runs, a later pass setting it again changes
\* nothing.
C11_ReadinessGate ==
    /\ [](pcI # "wait" => event)
    /\ [](event => visited = Hosts)
    /\ [][(event /\ status' = "running") => event']_vars

\* Discovery has finished a second pass (a login call was repeated) with the
\* Event set since the first, and Ingestion is in the middle of a batch.
C11_Witness ==
    /\ event /\ visited = Hosts /\ pcI = "commit"
    /\ \E host \in Hosts : authGap[host] # None
    /\ restarts = 0

\* C12: whenever Ingestion is past its wait for the Event, that is from the
\* start of its first sweep on, the Wallet table is not empty, whatever the
\* login and listing calls answered.
C12_FirstSweepHasWallets ==
    pcI # "wait" => wallets # {}

\* C13: when the fetch of one wallet fails, the wallet counts as having no
\* transaction: nothing is stored for it, the sweep goes on with the wallets
\* that follow, and Ingestion keeps running.
C13_FetchFailureTolerated ==
    [][IngestFetchFails =>
          /\ status' = "running" /\ error' = NoError
          /\ walletsTodo' = Tail(walletsTodo)
          /\ transactions' = transactions]_vars

\* C14: an error other than a throttle answer while the message of one
\* transaction is built or sent ends the work on that message only:
\* Notification keeps running and goes on to the next hash of the channel.
C14_MessageErrorIsolated ==
    [][NotifyRenderFails =>
          /\ status' = "running" /\ error' = NoError
          /\ pcN' = "recv" /\ channel' = channel]_vars

\* C15: a pass of Discovery in which the listing call of a provider fails
\* after its login succeeded writes no Wallet row for that provider, goes
\* through the remaining providers, sets the Event and leaves Discovery
\* running.
C15_ListingFailureTolerated ==
    [][(fetch_wallets /\ \E host \in Hosts : login_ok[host] /\ ~listing_ok[host]) =>
          /\ status' = "running" /\ error' = NoError
          /\ \A w \in wallets' : listing_ok[w.host]
          /\ visited' = Hosts /\ event']_vars

C17_UnknownWalletSkipped ==
    /\ [](batch.wallet # Unknown)
    /\ [](\A r \in transactions \cup pending.transactions : r.wallet_address # Unknown)
    /\ [][(fetch_wallet_transactions /\ pcI = "wallet" /\ walletsTodo # <<>>
              /\ Head(walletsTodo) = Unknown) =>
             /\ status' = "running" /\ error' = NoError
             /\ pcI' = "wallet" /\ walletsTodo' = Tail(walletsTodo)
             /\ UNCHANGED <<storeVars, pending, channel, transaction_hashes, batch>>]_vars

\* In a sweep after the first, the unmatched address came first and was
\* passed over; the batch of the wallet that follows it is about to commit
\* a new transaction.
C17_Witness ==
    /\ \E w \in wallets : w.address = Unknown
    /\ pcI = "commit" /\ batch.wallet = W1 /\ walletsTodo = <<W1>>
    /\ W1 \in swept /\ pending.transactions # {}

\* C18: when a stage ends with an error that is not a cancellation, the other
\* two stages are cancelled with it and run() ends with that error: an error
\* is on record only while the process is down, and the step that raises it
\* takes every task out of its work (the Event, the stream, the limiters and
\* the uncommitted session work go with the run).
C18_FailFast ==
    /\ [](error # NoError => status = "down")
    /\ [][(error = NoError /\ error' # NoError) =>
             /\ status = "running" /\ status' = "down"
             /\ pcI' = "wait" /\ pcN' = "recv" /\ sleepD' = 0
             /\ ~event' /\ channel' = <<>> /\ pending' = EmptySession]_vars

\* Ingestion's fetch has failed while Notification stood between the sink's
\* acceptance of a message and the writing of its record: the record was
\* never written.
C18_Witness ==
    /\ error = "ingestion" /\ status = "down"
    /\ \E h \in Hashes : sentCount[h] = 1 /\ MessagesOf(h) = {}
    /\ restarts = 1

\* C19: a cancellation that reaches a stage, or a fetch call made for it, at
\* an await is propagated: once the cancellation has arrived, the only step
\* the call takes is the one that raises it to its caller; no handler catches
\* it and goes on with the loop.
C19_CancellationPropagated ==
    [][(ethCancelled /\ fetch_ethereum_wallet_transactions) => ethPc' = "raised"]_vars

\* C20: an insert rejected for its hash takes nothing else with it: when the
\* insert loop of a batch is over, the session holds every fetched
\* transaction whose hash was not stored before, those before and those after
\* a rejected one alike, and once the batch has committed every fetched hash
\* is stored.
C20_RejectedInsertAlone ==
    /\ pcI = "commit" =>
           {r.hash : r \in pending.transactions}
               = batch.fetched \ {r.hash : r \in transactions}
    /\ pcI = "push" => \A h \in batch.fetched : Persisted(h)

\* The batch of a wallet fetched h1, h2, h3 in that order while h2 was stored
\* already by the other wallet's batch: h1 went in before the rejected insert,
\* h3 after it.
C20_Witness ==
    /\ pcI = "commit" /\ batch.wallet = W1 /\ batch.fetched = Hashes
    /\ {r.hash : r \in transactions} = {"h2"}
    /\ {r.hash : r \in pending.transactions} = {"h1", "h3"}

\* The TransactionAmount rows the fetched record of a stored row holds.
AmountsOf(r) ==
    LET tx == Normalise(r.hash, r.wallet_address)
    IN  {tx.amounts[i] : i \in 1..Len(tx.amounts)}

\* C21: the insert of a transaction is all or nothing.  In committed storage
\* every Transaction has its Token row and exactly the TransactionAmount rows
\* of its fetched record, and there is no TransactionAmount and no Token
\* without a Transaction (a rejected attempt left nothing behind); the session
\* of the running batch holds whole inserts only; and a cancellation that
\* interrupts a batch leaves storage as it was and drops the session.
C21_InsertAtomic ==
    /\ [](/\ \A r \in transactions :
                /\ \E t \in tokens : t.address = r.token_address
                /\ {a \in amounts : a.transaction_hash = r.hash} = AmountsOf(r)
          /\ \A a \in amounts : Persisted(a.transaction_hash)
          /\ \A t \in tokens : \E r \in transactions : r.token_address = t.address
          /\ \A r \in pending.transactions :
                /\ \E t \in tokens \cup pending.tokens : t.address = r.token_address
                /\ {a \in pending.amounts : a.transaction_hash = r.hash} = AmountsOf(r)
          /\ \A a \in pending.amounts :
                \E r \in pending.transactions : r.hash = a.transaction_hash)
    /\ [][(Cancel /\ pending.transactions # {}) =>
             (UNCHANGED storeVars /\ pending' = EmptySession)]_vars

\* After a cancellation that followed a commit, a batch holds a two-output
\* transaction next to a fetched one whose insert was rejected.
C21_Witness ==
    /\ restarts = 1 /\ status = "running" /\ pcI = "commit"
    /\ \E r \in transactions : r.hash \in batch.fetched
    /\ \E r \in pending.transactions : Cardinality(AmountsOf(r)) = 2

\* C22: an insert is discarded only for a hash that is stored already: when
\* a batch has committed, every transaction it fetched is stored with one
\* TransactionAmount per output of the fetched record, a transaction with two
\* outputs to one recipient included.
C22_EveryNewHashPersisted ==
    pcI = "push" =>
        \A h \in batch.fetched :
            /\ Persisted(h)
            /\ Cardinality({a \in amounts : a.transaction_hash = h}) = Len(RawTx(h).out)

\* C23: while the process runs the channel changes only by a push at its end
\* or a receive at its front, and the hash Notification takes up is the one at
\* the front (first in, first out, nothing lost or reordered); and the hashes
\* a batch is to push stand in the order the batch inserted them, oldest
\* first, and are pushed from the front.
C23_ChannelFifo ==
    /\ [][(status = "running" /\ status' = "running") =>
             \/ channel' = channel
             \/ channel # <<>> /\ channel' = Tail(channel)
             \/ /\ transaction_hashes # <<>>
                /\ channel' = Append(channel, Head(transaction_hashes))
                /\ transaction_hashes' = Tail(transaction_hashes)]_vars
    /\ [][(transaction_hash' # transaction_hash /\ transaction_hash' # NoHash) =>
             /\ channel # <<>> /\ transaction_hash' = Head(channel)
             /\ channel' = Tail(channel)]_vars
    /\ [](pcI = "commit" =>
             /\ \A i, j \in 1..Len(transaction_hashes) :
                    i < j => RawTx(transaction_hashes[i]).time
                                 < RawTx(transaction_hashes[j]).time
             /\ batch.marker # None =>
                    {transaction_hashes[i] : i \in 1..Len(transaction_hashes)}
                        = {r.hash : r \in pending.transactions})

\* Two hashes of one batch were pushed; Notification is sending the older
\* one while the newer one waits in the channel.
C23_Witness ==
    /\ pcN = "send" /\ Len(channel) = 1
    /\ RawTx(transaction_hash).time < RawTx(channel[1]).time
    /\ forwardCount[transaction_hash] = 1 /\ forwardCount[channel[1]] = 1
    /\ restarts = 0

\* C24: a push onto the channel never waits.  Whenever Ingestion stands at
\* its pushes the step can be taken, whatever the channel holds and whatever
\* Notification is waiting for; and from there Ingestion gets to the end of
\* its sweep and to the limiter of the next one, unless the process goes down.
C24_PushNeverBlocks ==
    /\ []((status = "running" /\ pcI = "push") => ENABLED IngestPush)
    /\ (pcI = "push") ~> (pcI = "acquire" \/ status = "down")

\* Ingestion is about to push the second hash of a batch while Notification
\* sleeps out a throttle answer to the first.
C24_Witness ==
    /\ status = "running" /\ pcI = "push" /\ transaction_hashes # <<>>
    /\ pcN = "send" /\ sleepN > 0 /\ attempt.hash = transaction_hash
    /\ transaction_hash \in batch.fetched

\* No hash that has a ChatMessage is ever in the channel: the branch of
\* NotifyReceive that skips an exported hash is never taken.
RecordedHashNeverQueued ==
    \A i \in 1..Len(channel) : ~AlreadyExported(channel[i])

\* C26: a ChatMessage is written only after the sink accepted the message.
\* Every row is of a hash the sink has accepted and carries an id the sink
\* has handed out; the table changes only by the step that follows an
\* accepted send, which adds one row with the hash just sent and the id that
\* send returned.
C26_RecordAfterSend ==
    /\ [](\A m \in chat_messages :
              sentCount[m.transaction_hash] >= 1 /\ m.message_id \in 1..(nextMessageId - 1))
    /\ [](pcN = "record" =>
              sentCount[transaction_hash] >= 1 /\ message_id = nextMessageId - 1)
    /\ [][chat_messages' # chat_messages =>
             /\ pcN = "record"
             /\ chat_messages' = chat_messages \cup
                    {[chat_id |-> CHAT_ID, message_id |-> message_id,
                      transaction_hash |-> transaction_hash]}]_vars

\* Two messages were accepted, with the ids 1 and 2, and both records are
\* written.
C26_Witness ==
    /\ Cardinality(chat_messages) = 2 /\ pcN = "recv"
    /\ \A m \in chat_messages : sentCount[m.transaction_hash] = 1
    /\ nextMessageId = 3

\* The hosts a round that starts on the table `rows` skips: those refreshed
\* less than the period ago.
SkippedHosts(rows) ==
    {host \in Hosts : TimeSince(rows, host) # None /\ TimeSince(rows, host) < WALLETS_PERIOD}

MaxOf(S) == CHOOSE a \in S : \A b \in S : b <= a

\* C27 as the spec states it: after a round Discovery sleeps the period less
\* the time since the refresh of the most recently refreshed provider (never
\* less than 0), and the sleep is never negative.
C27_SleepSinceNewestRefresh ==
    [][(fetch_wallets /\ status' = "running") =>
          /\ sleepD' >= 0
          /\ sleepD' = IF wallets' = {} THEN WALLETS_PERIOD
                       ELSE LET newest == CHOOSE w \in wallets' : \A v \in wallets' : w.age <= v.age
                            IN WALLETS_PERIOD - Max(0, newest.age)]_vars

\* C27, amended: after a round Discovery sleeps the period less the longest
\* time since refresh among the providers the round skipped (the whole period
\* when it skipped none), and the sleep is positive.
C27_SleepSinceOldestSkipped ==
    [][(fetch_wallets /\ status' = "running") =>
          /\ sleepD' > 0
          /\ sleepD' = WALLETS_PERIOD
                         - MaxOf({TimeSince(wallets, host) : host \in SkippedHosts(wallets)}
                                     \cup {0})]_vars

\* A round has skipped two providers, refreshed two thirds and one third of
\* the period ago, and Discovery sleeps the remaining third.
C27_Witness ==
    /\ event /\ sleepD = Third /\ status = "running"
    /\ TimeSince(wallets, "benefort.org") = 2 * Third
    /\ TimeSince(wallets, "fianit.net") = Third
    /\ \A host \in Hosts : sinceAuth[host] # 0

\* C28: each stage writes only the entities it owns: Discovery leaves Token,
\* Transaction, TransactionAmount and ChatMessage as they are, Ingestion
\* leaves Wallet and ChatMessage, Notification leaves Wallet, Token,
\* Transaction and TransactionAmount; no step removes a Wallet, and no step
\* changes or removes a persisted Transaction.
C28_StagesWriteOwnEntities ==
    /\ [][fetch_wallets => UNCHANGED <<tokens, transactions, amounts, chat_messages>>]_vars
    /\ [][(fetch_wallet_transactions \/ IngestFetchFails)
              => UNCHANGED <<wallets, chat_messages>>]_vars
    /\ [][export_wallet_transactions
              => UNCHANGED <<wallets, tokens, transactions, amounts>>]_vars
    /\ [][{w.address : w \in wallets} \subseteq {w.address : w \in wallets'}]_vars
    /\ [][transactions \subseteq transactions']_vars

\* After a restart Discovery has merged the wallets of both providers again,
\* over the transactions and the message records of the run before, which
\* Ingestion has not yet looked at.
C28_Witness ==
    /\ restarts = 1 /\ status = "running" /\ event /\ pcI = "wait"
    /\ {w.host : w \in wallets} = {"benefort.org", "fianit.net"}
    /\ \A w \in wallets : w.age = 0
    /\ Cardinality(transactions) >= 2 /\ chat_messages # {}

\* C29: Ingestion sends the hashes of a batch only after the batch is
\* committed, so every hash in the stream, and every hash Notification takes
\* from it, has its Transaction row in storage: Notification never takes the
\* branch that skips a hash without a Transaction.
C29_PushedHashPersisted ==
    /\ []((pcI = "push") =>
             /\ pending = EmptySession
             /\ \A i \in 1..Len(transaction_hashes) :
                    GetTransaction(transaction_hashes[i]) # {})
    /\ [](\A i \in 1..Len(channel) : GetTransaction(channel[i]) # {})
    /\ [][(channel' # channel /\ status' = "running" /\ status = "running") =>
              \/ pcI = "push" /\ pending = EmptySession
              \/ NotifyReceive /\ GetTransaction(Head(channel)) # {}]_vars
    /\ []((transaction_hash # NoHash) => GetTransaction(transaction_hash) # {})

\* A hash waits in the stream, committed, while Ingestion holds the inserted
\* rows of the next wallet's batch in its session, before their commit.
C29_Witness ==
    /\ status = "running" /\ pcN = "recv" /\ channel # <<>>
    /\ pcI = "commit" /\ pending.transactions # {}
    /\ \A r \in pending.transactions : r.hash # channel[1]

\* C30: a hash that the fetches of two tracked wallets return is persisted
\* exactly once, and it is pushed when one of the two wallets had a persisted
\* transaction (its marker was present) in the batch in which its fetch
\* returned the hash for the first time, in whatever order the sweep visits
\* the wallets.  Stated for a batch whose pushes are done.
C30_SharedHashForwardedAnyOrder ==
    (pcI = "push" /\ transaction_hashes = <<>> /\ batch.marker # None) =>
        \A h \in batch.late :
            (\A address \in {W1, W2} : h \in fetchedBy[address]) =>
                /\ Cardinality(GetTransaction(h)) = 1
                /\ forwardCount[h] >= 1

\* C31: in a process that is not cancelled, whatever the providers answer
\* (success or a failure response), Discovery eventually sets the Event,
\* Ingestion eventually starts its first sweep, and it starts a sweep again
\* and again from then on.
C31_NoStartUpDeadlock ==
    /\ <>event
    /\ <>(pcI = "wallet")
    /\ []<>(pcI = "wallet")

\* C32: the sweep treats an address as Tron exactly when it is "T" followed
\* by 33 base58 characters and nothing else, as Bitcoin exactly when it is
\* "bc1", "1" or "3" followed by 25 to 39 characters of the pattern's alphabet
\* and nothing else, and as unknown otherwise; no address is of both chains.
C32_ClassificationExact ==
    chainTag # NoTag =>
        LET s == candidate
            base58 == (Digits \ {"0"}) \cup (Upper \ {"I", "O"}) \cup (Lower \ {"l"})
            tron ==
                /\ Len(s) = 1 + TRON_LEN /\ s[1] = "T"
                /\ \A i \in 2..Len(s) : s[i] \in base58
            bitcoin ==
                \E p \in BTC_PREFIXES :
                    /\ StartsWith(s, p)
                    /\ Len(s) - Len(p) \in BTC_MIN..BTC_MAX
                    /\ \A i \in (Len(p) + 1)..Len(s) : s[i] \in BTC_CLASS
        IN  /\ (chainTag = "tron") <=> tron
            /\ (chainTag = "bitcoin") <=> bitcoin
            /\ (chainTag = "unknown") <=> (~tron /\ ~bitcoin)
            /\ ~(tron /\ bitcoin)

====
